---- MODULE Spec2Model ----
(***************************************************************************)
(* Model of the chunking and sequential translation pipeline of            *)
(* src/大文件AI翻译/AI文件翻译.py.                                          *)
(*                                                                         *)
(* A Python str is a sequence of one-character strings.  Source texts are  *)
(* over one letter, the terminator ".", one blank that does not break a    *)
(* line, and the two line terminators "\n" and "\r" ("\r\n" is one line    *)
(* break for str.splitlines, and only "\n" is a cut point for the chunker).*)
(***************************************************************************)
EXTENDS Integers, Sequences, FiniteSets, TLC

\* ---------------------------------------------------------------- bounds
MaxLen == 4
MaxMaxChars == 3
MaxOverflow == 1
MaxMinChunk == 3
MaxOverlap == 2

MaxChunks == 2
MaxRetries == 2
MaxBackoff == 2

Chars == {"a", ".", " ", "\n", "\r"}

Texts == UNION {[1..k -> Chars] : k \in 0..MaxLen}

\* c repeated k times
Rep(c, k) == [j \in 1..k |-> c]

\* ------------------------------------------------------ string primitives
\* str.isspace / the regex class \s
IsSpace(c) == c \in {" ", "\n", "\r"}

\* the regex alternatives [。！？!?] and \.{1,3}: a sentence terminator
IsTerm(c) == c \in {".", "!", "?"}

\* a character at which str.splitlines breaks a line
IsBreak(c) == c \in {"\n", "\r"}

RECURSIVE lstrip(_)
lstrip(s) ==
    IF s = <<>> THEN s
    ELSE IF IsSpace(Head(s)) THEN lstrip(Tail(s)) ELSE s

RECURSIVE rstrip(_)
rstrip(s) ==
    IF s = <<>> THEN s
    ELSE IF IsSpace(s[Len(s)]) THEN rstrip(SubSeq(s, 1, Len(s) - 1)) ELSE s

\* str.strip()
strip(s) == rstrip(lstrip(s))

\* ''.join(parts)
RECURSIVE join(_)
join(parts) ==
    IF parts = <<>> THEN <<>> ELSE Head(parts) \o join(Tail(parts))

\* sep.join(parts)
RECURSIVE join_sep(_, _)
join_sep(parts, sep) ==
    IF parts = <<>> THEN <<>>
    ELSE IF Len(parts) = 1 THEN Head(parts)
    ELSE Head(parts) \o sep \o join_sep(Tail(parts), sep)

\* sum(len(x) for x in parts)
RECURSIVE sum_len(_)
sum_len(parts) ==
    IF parts = <<>> THEN 0 ELSE Len(Head(parts)) + sum_len(Tail(parts))

\* smallest element of a non-empty set of integers
Least(S) == CHOOSE x \in S : \A y \in S : x <= y

\* str.splitlines(keepends): the lines of s from position p on
RECURSIVE splitlines_from(_, _, _)
splitlines_from(s, p, keepends) ==
    IF p > Len(s) THEN <<>>
    ELSE LET brk == {q \in p..Len(s) : IsBreak(s[q])}
         IN  IF brk = {} THEN <<SubSeq(s, p, Len(s))>>
             ELSE LET q == Least(brk)
                      e == IF s[q] = "\r" /\ q < Len(s) /\ s[q + 1] = "\n"
                           THEN q + 1 ELSE q
                  IN  <<SubSeq(s, p, IF keepends THEN e ELSE q - 1)>>
                      \o splitlines_from(s, e + 1, keepends)

splitlines(s, keepends) == splitlines_from(s, 1, keepends)

\* ------------------------------------------------------- sentence_split
\* positions t >= p of a terminator followed by whitespace or the end
TermMatches(s, p) ==
    {t \in p..Len(s) : IsTerm(s[t]) /\ (t = Len(s) \/ IsSpace(s[t + 1]))}

\* m.end(): the end of the greedy whitespace run after the terminator at t
RECURSIVE match_end(_, _)
match_end(s, t) ==
    IF t < Len(s) /\ IsSpace(s[t + 1]) THEN match_end(s, t + 1) ELSE t

RECURSIVE split_parts_raw(_, _)
split_parts_raw(s, last) ==
    IF TermMatches(s, last + 1) = {}
    THEN IF last < Len(s)
         THEN LET tail == strip(SubSeq(s, last + 1, Len(s)))
              IN  IF tail # <<>> THEN <<tail>> ELSE <<>>
         ELSE <<>>
    ELSE LET end == match_end(s, Least(TermMatches(s, last + 1)))
         IN  <<SubSeq(s, last + 1, end)>> \o split_parts_raw(s, end)

\* the loop over re.finditer and the tail, `last` characters consumed
RECURSIVE split_parts(_, _)
split_parts(s, last) ==
    IF TermMatches(s, last + 1) = {}
    THEN IF last < Len(s)
         THEN LET tail == strip(SubSeq(s, last + 1, Len(s)))
              IN  IF tail # <<>> THEN <<tail>> ELSE <<>>
         ELSE <<>>
    ELSE LET end == match_end(s, Least(TermMatches(s, last + 1)))
         IN  <<strip(SubSeq(s, last + 1, end))>> \o split_parts(s, end)

NonEmpty(x) == x # <<>>

\* the fallback: the non-empty trimmed lines
line_parts(s) ==
    SelectSeq([k \in 1..Len(splitlines(s, FALSE)) |->
                  strip(splitlines(s, FALSE)[k])], NonEmpty)

sentence_split(s) ==
    LET parts == split_parts(s, 0)
    IN  SelectSeq(IF parts = <<>> THEN line_parts(s) ELSE parts, NonEmpty)

\* ------------------------------------------------------------ variables
\* chunk_text_by_lines_with_overflow: arguments, locals and position
VARIABLES text, max_chars, overflow, min_chunk_chars, overlap_sentences,
          lines, i, buf, buf_len, chunks, origin, pc

\* ChunkTranslator / TranslateThread: configuration, locals and position,
\* the remote client's record of calls and replies, the sleeps taken, the
\* signals emitted and the output file
VARIABLES strategy, max_retries, retry_backoff,
          rpc, idx, translated_parts, prev_summary, prev_context,
          attempt, last_err, result,
          calls, replies, sleeps, events, out_file

\* sentence_split called on its own: its position and its return value
VARIABLES spc, split_result

svars == <<spc, split_result>>

\* TranslatorGUI: self.thread (0 for None, else the number of the thread
\* object), the TranslateThread objects created so far, the last message
\* shown, and the process
VARIABLES thread, threads, shown, app

gvars == <<thread, threads, shown, app>>

cvars == <<text, max_chars, overflow, min_chunk_chars, overlap_sentences,
           lines, i, buf, buf_len, chunks, origin, pc>>

tvars == <<strategy, max_retries, retry_backoff,
           rpc, idx, translated_parts, prev_summary, prev_context,
           attempt, last_err, result,
           calls, replies, sleeps, events, out_file>>

vars == <<cvars, tvars, svars, gvars>>

params == <<text, max_chars, overflow, min_chunk_chars, overlap_sentences, lines>>

\* the chunker's variables a translation run does not touch
cidle == <<text, max_chars, overflow, min_chunk_chars,
           lines, i, buf, buf_len, origin, pc>>

None == "None"

\* no text: nothing returned, no file on disk
NoText == <<"None">>

\* ------------------------------------- chunk_text_by_lines_with_overflow
Chunk(t, sents) == [text |-> t, sentences |-> sents]

\* the chunks after flush_buf() on buffer b
flush_chunks(b, ch) ==
    IF b = <<>> THEN ch
    ELSE LET joined == strip(join(b))
         IN  IF joined # <<>>
             THEN Append(ch, Chunk(joined, sentence_split(joined)))
             ELSE ch

\* cur[-k:] for k > 0
LastK(cur, k) ==
    IF k >= Len(cur) THEN cur ELSE SubSeq(cur, Len(cur) - k + 1, Len(cur))

\* the sub-buffer kept after a flush in the sentence loop
seed(cur, ovs) ==
    IF ovs # 0 /\ Len(cur) >= ovs THEN LastK(cur, ovs) ELSE <<>>

\* the sentence loop: the chunks appended for sents[k..] with sub-buffer cur
RECURSIVE sub_split(_, _, _, _, _)
sub_split(sents, k, cur, mc, ovs) ==
    IF k > Len(sents)
    THEN IF cur # <<>> THEN <<Chunk(strip(join(cur)), cur)>> ELSE <<>>
    ELSE IF sum_len(cur) + Len(sents[k]) <= mc \/ cur = <<>>
         THEN sub_split(sents, k + 1, Append(cur, sents[k]), mc, ovs)
         ELSE <<Chunk(strip(join(cur)), cur)>>
              \o sub_split(sents, k + 1, Append(seed(cur, ovs), sents[k]), mc, ovs)

\* accumulated[pos - 1], a negative index counting from the end
At(acc, pos) == IF pos >= 1 THEN acc[pos] ELSE acc[Len(acc) + pos]

Max(a, b) == IF a >= b THEN a ELSE b
Min(a, b) == IF a <= b THEN a ELSE b

find_cut_lowest(acc, mc, ov) ==
    LET lower_bound == Max(0, mc - ov)
        search_start == Min(Len(acc), mc)
        hits == {pos \in lower_bound..search_start : At(acc, pos) = "\n"}
    IN  IF Len(acc) >= lower_bound /\ hits # {}
        THEN CHOOSE pos \in hits : \A q \in hits : q >= pos
        ELSE -1

\* the search for a line boundary; -1 stands for None
find_cut(acc, mc, ov) ==
    LET lower_bound == Max(0, mc - ov)
        search_start == Min(Len(acc), mc)
        hits == {pos \in lower_bound..search_start : At(acc, pos) = "\n"}
    IN  IF Len(acc) >= lower_bound /\ hits # {}
        THEN CHOOSE pos \in hits : \A q \in hits : q <= pos
        ELSE -1

\* `if cut_pos:`
cut_found(cut_pos) == cut_pos # -1 /\ cut_pos # 0

cut_tail_kept(acc, cut_pos) == acc

\* accumulated[cut_pos:]
cut_tail(acc, cut_pos) == SubSeq(acc, cut_pos + 1, Len(acc))

fits_strict(bl, ll, mc) == bl + ll < mc

fits_loose(bl, ll, mc) == bl + ll <= mc + 1

\* `buf_len + line_len <= max_chars`
fits(bl, ll, mc) == bl + ll <= mc

within_tolerance_strict(bl, ll, mc, ov) == bl + ll < mc + ov

\* `buf_len + line_len <= max_chars + overflow`
within_tolerance(bl, ll, mc, ov) == bl + ll <= mc + ov

Tags(k, tag) == [j \in 1..k |-> tag]

\* the exhaustive small inputs
SmallInputs ==
    [text : Texts, max_chars : 1..MaxMaxChars, overflow : 0..MaxOverflow,
     min_chunk_chars : {0, MaxMinChunk}, overlap_sentences : 0..MaxOverlap]

Line100 == Rep("a", 99) \o <<"\n">>

\* three 100-character lines, and one 500-character line
ScenarioInputs ==
    {[text |-> Line100 \o Line100 \o Line100, max_chars |-> 150, overflow |-> 60,
      min_chunk_chars |-> 50, overlap_sentences |-> 2],
     [text |-> Rep("a", 500), max_chars |-> 100, overflow |-> 200,
      min_chunk_chars |-> 300, overlap_sentences |-> 2],
     [text |-> Rep("a", 500), max_chars |-> 100, overflow |-> 0,
      min_chunk_chars |-> 300, overlap_sentences |-> 0]}

Inputs == SmallInputs \cup ScenarioInputs

ChunkInit ==
    /\ \E inp \in Inputs :
          /\ text = inp.text
          /\ max_chars = inp.max_chars
          /\ overflow = inp.overflow
          /\ min_chunk_chars = inp.min_chunk_chars
          /\ overlap_sentences = inp.overlap_sentences
    /\ lines = splitlines(text, TRUE)
    /\ i = 0
    /\ buf = <<>>
    /\ buf_len = 0
    /\ chunks = <<>>
    /\ origin = <<>>
    /\ pc = "loop"

InLoop == pc = "loop" /\ i < Len(lines)
line == lines[i + 1]
line_len == Len(line)
accumulated == join(buf)

Emit(new, tag) ==
    /\ chunks' = new
    /\ origin' = origin \o Tags(Len(new) - Len(chunks), tag)

AppendLine ==
    /\ InLoop
    /\ fits(buf_len, line_len, max_chars)
    /\ buf' = Append(buf, line)
    /\ buf_len' = buf_len + line_len
    /\ i' = i + 1
    /\ UNCHANGED <<params, chunks, origin, pc, tvars, svars, gvars>>

AppendFlush ==
    /\ InLoop
    /\ ~fits(buf_len, line_len, max_chars)
    /\ within_tolerance(buf_len, line_len, max_chars, overflow)
    /\ Emit(flush_chunks(Append(buf, line), chunks), "overflow")
    /\ buf' = <<>>
    /\ buf_len' = 0
    /\ i' = i + 1
    /\ UNCHANGED <<params, pc, tvars, svars, gvars>>

Beyond ==
    /\ InLoop
    /\ ~fits(buf_len, line_len, max_chars)
    /\ ~within_tolerance(buf_len, line_len, max_chars, overflow)

SentenceSplit ==
    /\ Beyond
    /\ Len(accumulated) = 0
    /\ Emit(chunks \o sub_split(sentence_split(line), 1, <<>>, max_chars,
                                overlap_sentences), "sentence")
    /\ i' = i + 1
    /\ UNCHANGED <<params, buf, buf_len, pc, tvars, svars, gvars>>

Cut ==
    /\ Beyond
    /\ Len(accumulated) # 0
    /\ LET cut_pos == find_cut(accumulated, max_chars, overflow)
           head == SubSeq(accumulated, 1, cut_pos)
           tail == cut_tail(accumulated, cut_pos)
       IN  /\ cut_found(cut_pos)
           /\ Emit(Append(chunks, Chunk(strip(head), sentence_split(strip(head)))),
                   "cut")
           /\ buf' = <<tail>>
           /\ buf_len' = Len(tail)
    /\ UNCHANGED <<params, i, pc, tvars, svars, gvars>>

NoCut ==
    /\ Beyond
    /\ Len(accumulated) # 0
    /\ ~cut_found(find_cut(accumulated, max_chars, overflow))

HardCutShort ==
    /\ NoCut
    /\ Len(accumulated) >= max_chars
    /\ LET head == SubSeq(accumulated, 1, max_chars - 1)
           tail == cut_tail(accumulated, max_chars - 1)
       IN  /\ Emit(Append(chunks, Chunk(strip(head), sentence_split(strip(head)))),
                   "hardcut")
           /\ buf' = <<tail>>
           /\ buf_len' = Len(tail)
    /\ UNCHANGED <<params, i, pc, tvars, svars, gvars>>

HardCut ==
    /\ NoCut
    /\ Len(accumulated) >= max_chars
    /\ LET head == SubSeq(accumulated, 1, max_chars)
           tail == cut_tail(accumulated, max_chars)
       IN  /\ Emit(Append(chunks, Chunk(strip(head), sentence_split(strip(head)))),
                   "hardcut")
           /\ buf' = <<tail>>
           /\ buf_len' = Len(tail)
    /\ UNCHANGED <<params, i, pc, tvars, svars, gvars>>

FlushMin ==
    /\ NoCut
    /\ Len(accumulated) < max_chars
    /\ buf_len >= min_chunk_chars
    /\ Emit(flush_chunks(buf, chunks), "flush")
    /\ buf' = <<>>
    /\ buf_len' = 0
    /\ UNCHANGED <<params, i, pc, tvars, svars, gvars>>

ForceAppendDrop ==
    /\ NoCut
    /\ Len(accumulated) < max_chars
    /\ buf_len < min_chunk_chars
    /\ Emit(flush_chunks(buf, chunks), "force")
    /\ buf' = <<>>
    /\ buf_len' = 0
    /\ i' = i + 1
    /\ UNCHANGED <<params, pc, tvars, svars, gvars>>

ForceAppend ==
    /\ NoCut
    /\ Len(accumulated) < max_chars
    /\ buf_len < min_chunk_chars
    /\ Emit(flush_chunks(Append(buf, line), chunks), "force")
    /\ buf' = <<>>
    /\ buf_len' = 0
    /\ i' = i + 1
    /\ UNCHANGED <<params, pc, tvars, svars, gvars>>

FinalFlush ==
    /\ pc = "loop"
    /\ i >= Len(lines)
    /\ Emit(flush_chunks(buf, chunks), "final")
    /\ buf' = <<>>
    /\ buf_len' = 0
    /\ pc' = "done"
    /\ UNCHANGED <<params, i, tvars, svars, gvars>>

ChunkNext ==
    \/ AppendLine
    \/ AppendFlush
    \/ SentenceSplit
    \/ Cut
    \/ HardCut
    \/ FlushMin
    \/ ForceAppend
    \/ FinalFlush

\* no translation run exists
ThreadIdle ==
    /\ strategy = None
    /\ max_retries = 0
    /\ retry_backoff = 0
    /\ rpc = "idle"
    /\ idx = 0
    /\ translated_parts = <<>>
    /\ prev_summary = <<>>
    /\ prev_context = <<>>
    /\ attempt = 0
    /\ last_err = None
    /\ result = NoText
    /\ calls = <<>>
    /\ replies = <<>>
    /\ sleeps = <<>>
    /\ events = <<>>
    /\ out_file = NoText

\* sentence_split is not being called on its own
SplitIdle ==
    /\ spc = "idle"
    /\ split_result = <<>>

\* the window as constructed: no thread yet
GuiIdle ==
    /\ thread = 0
    /\ threads = <<>>
    /\ shown = "none"
    /\ app = "up"

Init == ChunkInit /\ ThreadIdle /\ SplitIdle /\ GuiIdle

Next == ChunkNext

Spec == Init /\ [][Next]_vars

\* ------------------------------------------- ChunkTranslator, TranslateThread
Strategies == {"overlap", "iterative_summary", "none"}

\* what the remote client can answer: an exception, a response whose first
\* choice carries a content, a response without choices
Errors == {"E1", "E2"}

\* the exception of the call for attempt att: successive failures of one
\* chunk differ in their cause
error_of(att) == IF att % 2 = 0 THEN "E1" ELSE "E2"

SummaryLen == 80

T1 == <<"T", "1">>
S3 == <<" ", "a", ".", " ", "b", "!", " ", "c", "?", "\n">>

\* a content longer than the summary, after a blank
LongText == <<" ">> \o Rep("b", SummaryLen + 1)

Contents == {T1, S3, LongText}

\* json.dumps(resp) of a response without choices
RawJson == <<"{", "}">>

\* the chunk lists a run is given: k chunks, chunk j of j letters
SampleChunks(k) == [j \in 1..k |-> Chunk(Rep("a", j), <<Rep("a", j)>>)]

RECURSIVE Pow2(_)
Pow2(k) == IF k = 0 THEN 1 ELSE 2 * Pow2(k - 1)

\* the values of overlap_sentences that make a difference to the run:
\* translate_chunks reads it under the overlap strategy only
OverlapsRead(strat) == IF strat = "overlap" THEN 0..MaxOverlap ELSE {0}

\* the state after TranslateThread and its ChunkTranslator are constructed
ThreadInit ==
    /\ strategy \in Strategies
    /\ overlap_sentences \in OverlapsRead(strategy)
    /\ max_retries \in {0, 1, MaxRetries}
    /\ retry_backoff \in {1, MaxBackoff}
    /\ rpc = "start"
    /\ idx = 0
    /\ translated_parts = <<>>
    /\ prev_summary = <<>>
    /\ prev_context = <<>>
    /\ attempt = 0
    /\ last_err = None
    /\ result = NoText
    /\ calls = <<>>
    /\ replies = <<>>
    /\ sleeps = <<>>
    /\ events = <<>>
    /\ out_file = NoText
    /\ chunks = <<>>

\* the chunker is not running
ChunkIdle ==
    /\ text = <<>>
    /\ max_chars = 1
    /\ overflow = 0
    /\ min_chunk_chars = 0
    /\ lines = <<>>
    /\ i = 0
    /\ buf = <<>>
    /\ buf_len = 0
    /\ origin = <<>>
    /\ pc = "done"

Log(what, arg) == [ev |-> "log", what |-> what, arg |-> arg]
ProgressSwapped(cur, total) == [ev |-> "progress", cur |-> total, total |-> cur]
Progress(cur, total) == [ev |-> "progress", cur |-> cur, total |-> total]
Done == [ev |-> "done"]
Error(msg, cause) == [ev |-> "error", msg |-> msg, cause |-> cause]

context_first(strat, ovs, parts, summary) ==
    IF strat = "overlap" /\ ovs > 0 /\ parts # <<>>
    THEN LET prev_sents == sentence_split(parts[Len(parts)])
         IN  IF prev_sents # <<>>
             THEN join(SubSeq(prev_sents, 1, Min(ovs, Len(prev_sents))))
             ELSE <<>>
    ELSE IF strat = "iterative_summary" THEN summary
    ELSE <<>>

\* the context carried into the next request
select_context(strat, ovs, parts, summary) ==
    IF strat = "overlap" /\ ovs > 0 /\ parts # <<>>
    THEN LET prev_sents == sentence_split(parts[Len(parts)])
         IN  IF prev_sents # <<>> THEN join(LastK(prev_sents, ovs)) ELSE <<>>
    ELSE IF strat = "iterative_summary" THEN summary
    ELSE <<>>

summary_of_whole(out) == strip(out)

\* out.strip()[:80]
summary_of(out) == SubSeq(strip(out), 1, Min(SummaryLen, Len(strip(out))))

joined_single(parts) == join_sep(parts, <<"\n">>)

\* '\n\n'.join(translated_parts)
joined(parts) == join_sep(parts, <<"\n", "\n">>)

more_attempts_short(att, mr) == att < mr

\* `attempt in range(self.max_retries + 1)`
more_attempts(att, mr) == att < mr + 1

\* reading the file and chunking it; the chunk list is an input of the run
RunStart ==
    /\ rpc = "start"
    /\ \E k \in 0..MaxChunks :
          /\ chunks' = SampleChunks(k)
          /\ events' = events \o <<Log("reading", 0), Log("length", 0),
                                   Log("chunking", 0), Log("produced", k)>>
    /\ rpc' = "loop"
    /\ UNCHANGED <<gvars, svars, cidle, overlap_sentences, strategy, max_retries, retry_backoff,
                   idx, translated_parts, prev_summary, prev_context, attempt,
                   last_err, result, calls, replies, sleeps, out_file>>

\* the source file cannot be read
ReadFail ==
    /\ rpc = "start"
    /\ events' = events \o <<Log("reading", 0), Error("IOError", None)>>
    /\ rpc' = "finished"
    /\ UNCHANGED <<gvars, svars, cvars, strategy, max_retries, retry_backoff,
                   idx, translated_parts, prev_summary, prev_context, attempt,
                   last_err, result, calls, replies, sleeps, out_file>>

LoopHeadKeep ==
    /\ rpc = "loop"
    /\ idx < Len(chunks)
    /\ prev_context' = select_context(strategy, overlap_sentences,
                                      translated_parts, prev_summary)
    /\ events' = Append(events, Log("sending", idx + 1))
    /\ last_err' = None
    /\ rpc' = IF more_attempts(attempt, max_retries) THEN "call" ELSE "raise"
    /\ UNCHANGED <<gvars, svars, cvars, strategy, max_retries, retry_backoff,
                   idx, translated_parts, prev_summary, attempt,
                   result, calls, replies, sleeps, out_file>>

\* the head of the loop over chunks, up to the first attempt
LoopHead ==
    /\ rpc = "loop"
    /\ idx < Len(chunks)
    /\ prev_context' = select_context(strategy, overlap_sentences,
                                      translated_parts, prev_summary)
    /\ events' = Append(events, Log("sending", idx + 1))
    /\ attempt' = 0
    /\ last_err' = None
    /\ rpc' = IF more_attempts(0, max_retries) THEN "call" ELSE "raise"
    /\ UNCHANGED <<gvars, svars, cvars, strategy, max_retries, retry_backoff,
                   idx, translated_parts, prev_summary,
                   result, calls, replies, sleeps, out_file>>

SendRequestAsync ==
    /\ rpc = "call"
    /\ calls' = Append(calls, [idx |-> idx, attempt |-> attempt,
                               source |-> chunks[idx + 1].text,
                               prev_summary |-> prev_summary,
                               prev_context |-> prev_context])
    /\ translated_parts' = Append(translated_parts, <<>>)
    /\ idx' = idx + 1
    /\ rpc' = "loop"
    /\ UNCHANGED <<gvars, svars, cvars, strategy, max_retries, retry_backoff,
                   prev_summary, prev_context, attempt,
                   last_err, result, replies, sleeps, events, out_file>>

\* the request of one attempt leaves
SendRequest ==
    /\ rpc = "call"
    /\ calls' = Append(calls, [idx |-> idx, attempt |-> attempt,
                               source |-> chunks[idx + 1].text,
                               prev_summary |-> prev_summary,
                               prev_context |-> prev_context])
    /\ rpc' = "wait"
    /\ UNCHANGED <<gvars, svars, cvars, strategy, max_retries, retry_backoff,
                   idx, translated_parts, prev_summary, prev_context, attempt,
                   last_err, result, replies, sleeps, events, out_file>>

\* the rest of the loop body once the model call returned `out`
Accept(out) ==
    /\ translated_parts' = Append(translated_parts, strip(out))
    /\ prev_summary' = IF strategy = "iterative_summary"
                       THEN summary_of(out) ELSE prev_summary
    /\ events' = events
                 \o (IF strategy = "iterative_summary"
                     THEN <<Log("summary", idx + 1)>> ELSE <<>>)
                 \o <<Progress(idx + 1, Len(chunks))>>
    /\ idx' = idx + 1
    /\ rpc' = "loop"
    /\ UNCHANGED <<gvars, svars, cvars, strategy, max_retries, retry_backoff, prev_context,
                   attempt, last_err, result, calls, sleeps, out_file>>

RecvContentSleep ==
    /\ rpc = "wait"
    /\ \E c \in Contents :
          /\ replies' = Append(replies, [kind |-> "content", text |-> c])
          /\ translated_parts' = Append(translated_parts, strip(c))
          /\ prev_summary' = IF strategy = "iterative_summary"
                             THEN summary_of(c) ELSE prev_summary
    /\ sleeps' = Append(sleeps, [idx |-> idx, attempt |-> attempt,
                                 secs |-> retry_backoff * Pow2(attempt)])
    /\ events' = events
                 \o (IF strategy = "iterative_summary"
                     THEN <<Log("summary", idx + 1)>> ELSE <<>>)
                 \o <<Progress(idx + 1, Len(chunks))>>
    /\ idx' = idx + 1
    /\ rpc' = "loop"
    /\ UNCHANGED <<gvars, svars, cvars, strategy, max_retries, retry_backoff, prev_context,
                   attempt, last_err, result, calls, out_file>>

\* a response with choices arrives
RecvContent ==
    /\ rpc = "wait"
    /\ \E c \in Contents :
          /\ replies' = Append(replies, [kind |-> "content", text |-> c])
          /\ Accept(c)

RecvNoChoicesFail ==
    /\ rpc = "wait"
    /\ replies' = Append(replies, [kind |-> "raw", text |-> RawJson])
    /\ last_err' = "E1"
    /\ rpc' = "sleep"
    /\ UNCHANGED <<gvars, svars, cvars, strategy, max_retries, retry_backoff,
                   idx, translated_parts, prev_summary, prev_context, attempt,
                   result, calls, sleeps, events, out_file>>

\* a response without choices arrives
RecvNoChoices ==
    /\ rpc = "wait"
    /\ replies' = Append(replies, [kind |-> "raw", text |-> RawJson])
    /\ Accept(RawJson)

\* the call raises
RecvError ==
    /\ rpc = "wait"
    /\ \E e \in {error_of(attempt)} :
          /\ replies' = Append(replies, [kind |-> "error", text |-> e])
          /\ last_err' = e
    /\ rpc' = "sleep"
    /\ UNCHANGED <<gvars, svars, cvars, strategy, max_retries, retry_backoff,
                   idx, translated_parts, prev_summary, prev_context, attempt,
                   result, calls, sleeps, events, out_file>>

\* time.sleep in the except clause, then the next round of the for loop
Sleep ==
    /\ rpc = "sleep"
    /\ sleeps' = Append(sleeps, [idx |-> idx, attempt |-> attempt,
                                 secs |-> retry_backoff * Pow2(attempt)])
    /\ attempt' = attempt + 1
    /\ rpc' = IF more_attempts(attempt + 1, max_retries) THEN "call" ELSE "raise"
    /\ UNCHANGED <<gvars, svars, cvars, strategy, max_retries, retry_backoff,
                   idx, translated_parts, prev_summary, prev_context,
                   last_err, result, calls, replies, events, out_file>>

RaiseSwallowed ==
    /\ rpc = "raise"
    /\ translated_parts' = Append(translated_parts, <<>>)
    /\ idx' = idx + 1
    /\ rpc' = "loop"
    /\ UNCHANGED <<gvars, svars, cvars, strategy, max_retries, retry_backoff,
                   prev_summary, prev_context, attempt, last_err, events,
                   result, calls, replies, sleeps, out_file>>

\* the RuntimeError leaves translate_chunks and reaches run's handler
Raise ==
    /\ rpc = "raise"
    /\ events' = Append(events, Error("Model call failed", last_err))
    /\ rpc' = "finished"
    /\ UNCHANGED <<gvars, svars, cvars, strategy, max_retries, retry_backoff,
                   idx, translated_parts, prev_summary, prev_context, attempt,
                   last_err, result, calls, replies, sleeps, out_file>>

\* translate_chunks returns the joined document
Return ==
    /\ rpc = "loop"
    /\ idx >= Len(chunks)
    /\ result' = joined(translated_parts)
    /\ rpc' = "write"
    /\ UNCHANGED <<gvars, svars, cvars, strategy, max_retries, retry_backoff,
                   idx, translated_parts, prev_summary, prev_context, attempt,
                   last_err, calls, replies, sleeps, events, out_file>>

\* the document is written and done is emitted
WriteDone ==
    /\ rpc = "write"
    /\ out_file' = result
    /\ events' = Append(events, Done)
    /\ rpc' = "finished"
    /\ UNCHANGED <<gvars, svars, cvars, strategy, max_retries, retry_backoff,
                   idx, translated_parts, prev_summary, prev_context, attempt,
                   last_err, result, calls, replies, sleeps>>

WriteFailAfterDone ==
    /\ rpc = "write"
    /\ \E f \in {NoText, <<>>} : out_file' = f
    /\ events' = events \o <<Done, Error("IOError", None)>>
    /\ rpc' = "finished"
    /\ UNCHANGED <<gvars, svars, cvars, strategy, max_retries, retry_backoff,
                   idx, translated_parts, prev_summary, prev_context, attempt,
                   last_err, result, calls, replies, sleeps>>

\* write_text_file raises: no file, or a file opened for writing and cut short
WriteFail ==
    /\ rpc = "write"
    /\ \E f \in {NoText, <<>>} : out_file' = f
    /\ events' = Append(events, Error("IOError", None))
    /\ rpc' = "finished"
    /\ UNCHANGED <<gvars, svars, cvars, strategy, max_retries, retry_backoff,
                   idx, translated_parts, prev_summary, prev_context, attempt,
                   last_err, result, calls, replies, sleeps>>

InitT == ChunkIdle /\ ThreadInit /\ SplitIdle /\ GuiIdle

NextT ==
    \/ RunStart
    \/ ReadFail
    \/ LoopHead
    \/ SendRequest
    \/ RecvContent
    \/ RecvNoChoices
    \/ RecvError
    \/ Sleep
    \/ Raise
    \/ Return
    \/ WriteDone
    \/ WriteFail

SpecT == InitT /\ [][NextT]_vars

\* ------------------------------------------------------ cancel_translation
\* self.thread.terminate() while the thread is running: the thread stops
\* wherever it is; inside write_text_file the file may not exist yet, may
\* have been opened and truncated, or may be written with done not emitted
cancel_translation ==
    /\ rpc \notin {"finished", "terminated"}
    /\ rpc' = "terminated"
    /\ IF rpc = "write"
       THEN \E f \in {out_file, <<>>, result} : out_file' = f
       ELSE out_file' = out_file
    /\ UNCHANGED <<gvars, svars, cvars, strategy, max_retries, retry_backoff,
                   idx, translated_parts, prev_summary, prev_context, attempt,
                   last_err, result, calls, replies, sleeps, events>>

NextG ==
    \/ NextT
    \/ cancel_translation

\* a run that the user may cancel
SpecG == InitT /\ [][NextG]_vars

\* ---------------------------------------------- sentence_split on its own
InitS ==
    /\ text \in Texts
    /\ spc = "call"
    /\ split_result = <<>>
    /\ max_chars = 1
    /\ overflow = 0
    /\ min_chunk_chars = 0
    /\ overlap_sentences = 0
    /\ lines = <<>>
    /\ i = 0
    /\ buf = <<>>
    /\ buf_len = 0
    /\ chunks = <<>>
    /\ origin = <<>>
    /\ pc = "done"
    /\ ThreadIdle
    /\ GuiIdle

\* one call of sentence_split(text)
SplitCall ==
    /\ spc = "call"
    /\ split_result' = sentence_split(text)
    /\ spc' = "returned"
    /\ UNCHANGED <<cvars, tvars, gvars>>

NextS == SplitCall

SpecS == InitS /\ [][NextS]_vars

\* ------------------------------------------------------------ TranslatorGUI
MaxThreads == 3

\* the source path field: empty or not a file, or one of two files
Sources == {"", "a.txt", "b.txt"}

\* a thread whose run() has not returned and that was not terminated
isRunning(k) == threads[k].state \in {"running", "writing"}

InitU ==
    /\ GuiIdle
    /\ ChunkIdle
    /\ chunks = <<>>
    /\ overlap_sentences = 0
    /\ ThreadIdle
    /\ SplitIdle

\* the start button: the fields are validated, then a new TranslateThread is
\* created, stored in self.thread and started; a thread still running is
\* not looked at. Dropping the last reference to a running QThread lets it
\* run on while its run() holds the object, or destroys it and aborts the
\* process.
start_translation ==
    /\ app = "up"
    /\ Len(threads) < MaxThreads
    /\ \E src \in Sources, filled \in BOOLEAN :
          IF src = ""
          THEN shown' = "warn_source" /\ UNCHANGED <<thread, threads, app>>
          ELSE IF ~filled
          THEN shown' = "warn_api" /\ UNCHANGED <<thread, threads, app>>
          ELSE /\ threads' = Append(threads, [source_path |-> src, state |-> "running"])
               /\ thread' = Len(threads) + 1
               /\ shown' = "started"
               /\ IF thread # 0 /\ isRunning(thread)
                  THEN app' \in {"up", "aborted"}
                  ELSE app' = "up"
    /\ UNCHANGED <<cvars, tvars, svars>>

\* thread k has translated its chunks and enters write_text_file
ThreadWrites(k) ==
    /\ app = "up"
    /\ threads[k].state = "running"
    /\ threads' = [threads EXCEPT ![k].state = "writing"]
    /\ UNCHANGED <<thread, shown, app, cvars, tvars, svars>>

\* run() of thread k returns, after done or error
ThreadEnds(k) ==
    /\ app = "up"
    /\ isRunning(k)
    /\ threads' = [threads EXCEPT ![k].state = "finished"]
    /\ UNCHANGED <<thread, shown, app, cvars, tvars, svars>>

\* the cancel button: only self.thread is looked at
cancel_current ==
    /\ app = "up"
    /\ thread # 0
    /\ isRunning(thread)
    /\ threads' = [threads EXCEPT ![thread].state = "terminated"]
    /\ shown' = "cancelled"
    /\ UNCHANGED <<thread, app, cvars, tvars, svars>>

NextU ==
    \/ start_translation
    \/ \E k \in 1..Len(threads) : ThreadWrites(k)
    \/ \E k \in 1..Len(threads) : ThreadEnds(k)
    \/ cancel_current

SpecU == InitU /\ [][NextU]_vars

\* ------------------------------------------------------------ properties
\* the characters of s that are not whitespace
NoSpace(s) == SelectSeq(s, LAMBDA c : ~IsSpace(c))

\* the chunk texts concatenated in order
ChunkTexts == join([k \in 1..Len(chunks) |-> chunks[k].text])

HasNoTerminator(s) == \A k \in 1..Len(s) : ~IsTerm(s[k])

\* C1: the chunk texts of a finished chunking, concatenated in order, are the
\* source text up to whitespace: nothing dropped, duplicated or reordered.
C1_Coverage == pc = "done" => NoSpace(ChunkTexts) = NoSpace(text)

\* C2: every chunk not produced by the hard cut or by the sentence fallback
\* has at most max_chars + overflow characters.
C2_Bound ==
    \A k \in 1..Len(chunks) :
        origin[k] \notin {"hardcut", "sentence"}
            => Len(chunks[k].text) <= max_chars + overflow

\* C3: every iteration of the main loop consumes a line or strictly shortens
\* the buffer, and the line index never passes the number of lines, so the
\* loop ends.
C3_Progress ==
    /\ [](i <= Len(lines) /\ buf_len >= 0)
    /\ [][pc = "loop" =>
            \/ i < Len(lines) /\ i' = i + 1
            \/ i < Len(lines) /\ i' = i /\ buf_len' < buf_len
                 /\ Len(join(buf')) < Len(join(buf))
            \/ i = Len(lines) /\ pc' = "done"]_vars

\* every line is longer than max_chars, none has a terminator, and the
\* chunking has ended
C3_Witness ==
    /\ pc = "done"
    /\ Len(lines) >= 2
    /\ HasNoTerminator(text)
    /\ \A k \in 1..Len(lines) : Len(lines[k]) > max_chars

\* C9: a single line longer than max_chars + overflow without a terminator
\* ends in non-empty chunks of at most max_chars characters that hold all
\* of its characters; 500 characters with max_chars = 100 give 5 chunks.
C9_ForcedSplit ==
    (/\ pc = "done"
     /\ Len(lines) = 1
     /\ HasNoTerminator(text)
     /\ Len(text) > max_chars + overflow)
    => /\ \A k \in 1..Len(chunks) :
             chunks[k].text # <<>> /\ Len(chunks[k].text) <= max_chars
       /\ NoSpace(ChunkTexts) = NoSpace(text)
       /\ (Len(text) = 500 /\ max_chars = 100 => Len(chunks) = 5)

\* the next line passes max_chars but stays within the tolerance
InTolerance ==
    /\ pc = "loop"
    /\ i < Len(lines)
    /\ buf_len + Len(lines[i + 1]) > max_chars
    /\ buf_len + Len(lines[i + 1]) <= max_chars + overflow

Flushed == strip(join(buf) \o lines[i + 1])

\* C10 as stated: within the tolerance the line is appended whole and the
\* buffer is flushed at once as one chunk that ends with that line.
C10_AlwaysOneChunk ==
    [][InTolerance =>
          /\ chunks' = Append(chunks, Chunk(Flushed, sentence_split(Flushed)))
          /\ buf' = <<>>
          /\ i' = i + 1]_vars

ThreeLines == Line100 \o Line100 \o Line100

\* C10 amended: within the tolerance the line is consumed whole and the
\* buffer is emptied at once, before any cut is tried; the trimmed buffer
\* plus line is emitted as one chunk unless it is all whitespace, and then
\* no chunk is emitted.  Three 100-character lines with max_chars = 150,
\* overflow = 60, min_chunk_chars = 50 give 2 chunks, lines 1-2 and line 3.
C10_Tolerance ==
    /\ [](pc = "done" /\ text = ThreeLines /\ max_chars = 150
            => /\ Len(chunks) = 2
               /\ chunks[1].text = strip(Line100 \o Line100)
               /\ chunks[2].text = strip(Line100))
    /\ [][InTolerance =>
            /\ chunks' = IF Flushed = <<>> THEN chunks
                         ELSE Append(chunks, Chunk(Flushed, sentence_split(Flushed)))
            /\ buf' = <<>>
            /\ buf_len' = 0
            /\ i' = i + 1]_vars

\* the three-line scenario has ended, its first chunk flushed by the tolerance
C10_Witness ==
    /\ pc = "done"
    /\ text = ThreeLines
    /\ max_chars = 150 /\ overflow = 60 /\ min_chunk_chars = 50
    /\ origin = <<"overflow", "final">>

\* the remote calls made for chunk j
CallsFor(j) == {k \in 1..Len(calls) : calls[k].idx = j}

SleepsFor(j) == {k \in 1..Len(sleeps) : sleeps[k].idx = j}

\* every call made for chunk j has been answered by an exception
AllFailed(j) ==
    \A k \in CallsFor(j) : k <= Len(replies) /\ replies[k].kind = "error"

LastEvent == events[Len(events)]

\* C4: against a client whose every call fails there are exactly
\* max_retries + 1 calls, never more and never fewer, and then the call
\* fails with the model-call error.
C4_Attempts ==
    /\ \A j \in 0..MaxChunks + 1 : Cardinality(CallsFor(j)) <= max_retries + 1
    /\ rpc = "raise"
         => AllFailed(idx) /\ Cardinality(CallsFor(idx)) = max_retries + 1
    /\ (/\ idx < Len(chunks)
        /\ AllFailed(idx)
        /\ Cardinality(CallsFor(idx)) = max_retries + 1)
         => /\ rpc \in {"sleep", "raise", "finished"}
            /\ rpc = "finished" => LastEvent = Error("Model call failed", last_err)

\* three failed calls with max_retries = 2, and the run has failed
C4_Witness ==
    /\ rpc = "finished"
    /\ max_retries = 2
    /\ idx < Len(chunks)
    /\ AllFailed(idx)
    /\ Cardinality(CallsFor(idx)) = 3
    /\ LastEvent.ev = "error"

\* C5: the delay after failed attempt k is retry_backoff * 2^k and a sleep
\* happens only between two attempts: max_retries sleeps when every attempt
\* fails, none after the last attempt.
C5_SleepsBetweenAttempts ==
    /\ \A k \in 1..Len(sleeps) :
           sleeps[k].secs = retry_backoff * Pow2(sleeps[k].attempt)
    /\ \A j \in 0..MaxChunks + 1 : Cardinality(SleepsFor(j)) <= max_retries
    /\ rpc = "raise" => Cardinality(SleepsFor(idx)) = max_retries

\* the reply that gave chunk j its translation
OkReply(j) ==
    replies[CHOOSE k \in CallsFor(j) : k <= Len(replies) /\ replies[k].kind # "error"]

\* the last N sentences of t, joined without separator
LastSentences(t, N) ==
    LET ss == sentence_split(t)
    IN  join([k \in 1..Min(N, Len(ss)) |-> ss[Len(ss) - Min(N, Len(ss)) + k]])

\* C6: under overlap with N > 0 sentences the context of chunk 0 is empty
\* and the context of chunk i >= 1 is the last N sentences of the trimmed
\* output of chunk i - 1, joined without separator.
C6_OverlapContext ==
    (strategy = "overlap" /\ overlap_sentences > 0)
    => \A j \in 0..Len(chunks) :
          CallsFor(j) # {}
          => LET want == IF j = 0 THEN <<>>
                         ELSE LastSentences(strip(OkReply(j - 1).text),
                                            overlap_sentences)
             IN  \A k \in CallsFor(j) : calls[k].prev_context = want

\* N = 2, the output of chunk 0 has the sentences a. b! c? and the request
\* for chunk 1 carries b!c?
C6_Witness ==
    /\ strategy = "overlap"
    /\ overlap_sentences = 2
    /\ \E k \in 1..Len(calls) :
          /\ calls[k].idx = 1
          /\ OkReply(0).text = S3
          /\ calls[k].prev_context = <<"b", "!", "c", "?">>

\* the replies that carried a translation, in the order received
OkReplies == SelectSeq(replies, LAMBDA r : r.kind # "error")

\* C7: a successful run returns the trimmed outputs of the chunks, one per
\* chunk and in chunk order, joined by "\n\n".
C7_JoinedOutput ==
    result # NoText
    => /\ Len(OkReplies) = Len(chunks)
       /\ \A j \in 1..Len(chunks) : OkReplies[j] = OkReply(j - 1)
       /\ result = join_sep([j \in 1..Len(chunks) |-> strip(OkReplies[j].text)],
                            <<"\n", "\n">>)

\* the client returned T1 then S3 over two chunks
C7_Witness ==
    /\ Len(chunks) = 2
    /\ strategy = "overlap"
    /\ result = <<"T", "1", "\n", "\n", "a", ".", " ", "b", "!", " ", "c", "?">>

\* the retry budget of chunk j is exhausted
Exhausted(j) ==
    /\ j < Len(chunks)
    /\ Cardinality(CallsFor(j)) = max_retries + 1
    /\ AllFailed(j)

\* C8: once the translation of chunk i has failed for good no request for a
\* later chunk is sent, translate_chunks returns nothing, no file is written
\* and done is not emitted.
C8_Abort ==
    \A j \in 0..MaxChunks :
        Exhausted(j)
        => /\ \A k \in 1..Len(calls) : calls[k].idx <= j
           /\ result = NoText
           /\ out_file = NoText
           /\ \A k \in 1..Len(events) : events[k].ev # "done"
           /\ rpc = "finished" => LastEvent.ev = "error"

\* chunk 0 was translated, chunk 1 failed for good, the run has ended
C8_Witness ==
    /\ rpc = "finished"
    /\ Exhausted(1)
    /\ Len(translated_parts) = 1
    /\ translated_parts[1] # <<>>

\* C11: at most one remote call is outstanding, and a request for chunk
\* i + 1 is sent only after the reply for chunk i has arrived and its
\* trimmed text has been appended.
C11_OneInFlight ==
    /\ Len(calls) - Len(replies) \in {0, 1}
    /\ Len(calls) > Len(replies) => rpc = "wait"
    /\ \A k \in 1..Len(calls) :
          calls[k].idx >= 1
          => /\ Len(translated_parts) >= calls[k].idx
             /\ \E m \in 1..(k - 1) :
                   /\ m <= Len(replies)
                   /\ calls[m].idx = calls[k].idx - 1
                   /\ replies[m].kind # "error"
                   /\ translated_parts[calls[k].idx] = strip(replies[m].text)

\* the request for chunk 1 is outstanding, chunk 0 answered after a retry
C11_Witness ==
    /\ rpc = "wait"
    /\ idx = 1
    /\ Len(calls) = 3
    /\ Len(replies) = 2
    /\ replies[1].kind = "error"

\* C12: cancelling takes effect only between chunks: no outstanding request
\* is interrupted, and a cancelled run leaves no done event and no output
\* file, partial or complete.
C12_CleanCancel ==
    rpc = "terminated"
    => /\ Len(calls) = Len(replies)
       /\ out_file = NoText
       /\ \A k \in 1..Len(events) : events[k].ev # "done"

\* the terminal events emitted so far
Terminals == SelectSeq(events, LAMBDA e : e.ev \in {"done", "error"})

\* C13: a run that is not cancelled goes on until it has emitted exactly one
\* terminal event, done or error, as its last event; done comes only after
\* every chunk was translated and the whole joined document was written.
C13_OneTerminalEvent ==
    /\ rpc # "finished" => Len(Terminals) = 0
    /\ rpc \in {"start", "loop", "call", "wait", "sleep", "raise", "write", "finished"}
    /\ rpc = "start" => ENABLED ReadFail
    /\ rpc = "loop" => idx < Len(chunks) \/ ENABLED Return
    /\ rpc = "call" => ENABLED SendRequest
    /\ rpc = "wait" => ENABLED RecvError
    /\ rpc = "sleep" => ENABLED Sleep
    /\ rpc = "raise" => ENABLED Raise
    /\ rpc = "write" => ENABLED WriteDone
    /\ rpc = "finished" => Len(Terminals) = 1 /\ LastEvent = Terminals[1]
    /\ \A k \in 1..Len(events) :
          events[k].ev = "done"
          => /\ Len(translated_parts) = Len(chunks)
             /\ \A j \in 0..Len(chunks) - 1 :
                   \E m \in CallsFor(j) : m <= Len(replies) /\ replies[m].kind # "error"
             /\ result = join_sep(translated_parts, <<"\n", "\n">>)
             /\ out_file = result

\* a run over two chunks has ended with done
C13_Witness ==
    /\ rpc = "finished"
    /\ Len(chunks) = 2
    /\ LastEvent.ev = "done"
    /\ out_file # NoText

\* C14: when chunk i fails for good the terminal error names the index i of
\* the failing chunk and the last underlying cause.
C14_ErrorNamesChunk ==
    (rpc = "finished" /\ idx < Len(chunks))
    => /\ LastEvent.ev = "error"
       /\ LastEvent.cause = last_err
       /\ "chunk" \in DOMAIN LastEvent
       /\ LastEvent.chunk = idx

\* C15: every chunk has a text that is not empty after trimming.
C15_NonEmptyChunks ==
    \A k \in 1..Len(chunks) : strip(chunks[k].text) # <<>>

\* C16: the sentences of every chunk are sentence_split of its text.
C16_SentencesOfText ==
    \A k \in 1..Len(chunks) :
        chunks[k].sentences = sentence_split(chunks[k].text)

\* C17: a text without terminator is split into its non-empty trimmed
\* lines, one sentence per line in order.
C17_LineFallback ==
    (spc = "returned" /\ HasNoTerminator(text))
    => /\ split_result = line_parts(text)
       /\ Len(split_result)
            = Cardinality({k \in 1..Len(splitlines(text, FALSE)) :
                              strip(splitlines(text, FALSE)[k]) # <<>>})

\* res[k..] are contiguous spans of t, in order, starting at from or later
RECURSIVE SpansFrom(_, _, _, _)
SpansFrom(t, res, k, from) ==
    IF k > Len(res) THEN TRUE
    ELSE \E st \in from..(Len(t) - Len(res[k]) + 1) :
            /\ SubSeq(t, st, st + Len(res[k]) - 1) = res[k]
            /\ SpansFrom(t, res, k + 1, st + Len(res[k]))

\* C18: sentence_split returns no empty string, and its sentences are
\* trimmed contiguous spans of the input that follow each other in document
\* order without overlap.
C18_TrimmedSpans ==
    spc = "returned"
    => /\ \A k \in 1..Len(split_result) :
             /\ split_result[k] # <<>>
             /\ ~IsSpace(split_result[k][1])
             /\ ~IsSpace(split_result[k][Len(split_result[k])])
       /\ SpansFrom(text, split_result, 1, 1)

\* a text that starts with whitespace was split into two sentences
C18_Witness ==
    /\ spc = "returned"
    /\ Len(text) = MaxLen
    /\ IsSpace(text[1])
    /\ Len(split_result) = 2

\* the progress events emitted so far
Progs == SelectSeq(events, LAMBDA e : e.ev = "progress")

HasEvent(e) == \E k \in 1..Len(events) : events[k] = e

\* C19: progress (i + 1, total) is emitted once per chunk i, after its
\* output is appended and before the request for chunk i + 1, so the values
\* are 1, 2, ... and a successful run over total >= 1 chunks ends with
\* (total, total); the line announcing chunk i precedes its request.
C19_ProgressOrder ==
    /\ Progs = [k \in 1..Len(translated_parts) |->
                  [ev |-> "progress", cur |-> k, total |-> Len(chunks)]]
    /\ \A c \in 1..Len(calls) :
          /\ Len(translated_parts) >= calls[c].idx
          /\ HasEvent([ev |-> "log", what |-> "sending", arg |-> calls[c].idx + 1])
    /\ (rpc = "call" /\ attempt = 0)
          => /\ HasEvent([ev |-> "log", what |-> "sending", arg |-> idx + 1])
             /\ CallsFor(idx) = {}
    /\ (result # NoText /\ Len(chunks) >= 1)
          => /\ Len(translated_parts) = Len(chunks)
             /\ \E k \in 1..Len(events) :
                   /\ events[k] = [ev |-> "progress", cur |-> Len(chunks),
                                   total |-> Len(chunks)]
                   /\ \A n \in (k + 1)..Len(events) : events[n].ev # "progress"

\* two chunks translated: progress (1, 2) then (2, 2)
C19_Witness ==
    /\ result # NoText
    /\ Len(chunks) = 2
    /\ Len(Progs) = 2
    /\ Progs[2].cur = 2 /\ Progs[2].total = 2

\* the next line passes the tolerance, no cut is found, and the buffer is
\* not empty but shorter than min_chunk_chars
Undersized ==
    /\ pc = "loop"
    /\ i < Len(lines)
    /\ buf_len + Len(lines[i + 1]) > max_chars + overflow
    /\ join(buf) # <<>>
    /\ ~cut_found(find_cut(join(buf), max_chars, overflow))
    /\ buf_len < min_chunk_chars

\* C20: an undersized buffer is flushed as it is, as a chunk of its own, and
\* the overflowing line is not merged into it but considered again against
\* the empty buffer.
C20_FlushUndersized ==
    [][Undersized =>
          /\ i' = i
          /\ join(buf') = <<>>
          /\ Len(chunks') <= Len(chunks) + 1
          /\ Len(chunks') = Len(chunks) + 1
               => chunks'[Len(chunks')].text = strip(join(buf))]_vars

\* C21: in the sentence sub-split with overlap_sentences = N > 0 every chunk
\* after the first begins with the last min(N, k) sentences of the
\* k-sentence chunk flushed before it, followed by one more sentence.
C21_OverlapSeed ==
    [][(Beyond /\ Len(accumulated) = 0 /\ overlap_sentences > 0) =>
          \A j \in (Len(chunks) + 2)..Len(chunks') :
              LET prev == chunks'[j - 1].sentences
                  cur == chunks'[j].sentences
                  m == Min(overlap_sentences, Len(prev))
              IN  /\ Len(cur) >= m + 1
                  /\ SubSeq(cur, 1, m) = SubSeq(prev, Len(prev) - m + 1, Len(prev))]_vars

\* the positions of the buffer, between max_chars - overflow and max_chars,
\* that end a line
Boundaries ==
    {p \in Max(1, max_chars - overflow)..Min(max_chars, Len(accumulated)) :
        accumulated[p] = "\n"}

\* C22: beyond the tolerance, with a line boundary of the non-empty buffer
\* between max_chars - overflow and max_chars, the text up to the boundary
\* nearest below max_chars becomes one chunk, the rest stays in the buffer
\* in order, and the pending line is not consumed.
C22_CutAtBoundary ==
    [][(Beyond /\ accumulated # <<>> /\ Boundaries # {}) =>
          \E p \in Boundaries :
              /\ \A q \in Boundaries : q <= p
              /\ max_chars - overflow <= p /\ p <= max_chars
              /\ chunks' = Append(chunks,
                                  Chunk(strip(SubSeq(accumulated, 1, p)),
                                        sentence_split(strip(SubSeq(accumulated, 1, p)))))
              /\ join(buf') = SubSeq(accumulated, p + 1, Len(accumulated))
              /\ buf_len' = Len(join(buf'))
              /\ i' = i]_vars

\* a cut has just left a non-empty rest in the buffer, the line still pending
C22_Witness ==
    /\ pc = "loop"
    /\ i < Len(lines)
    /\ origin # <<>>
    /\ origin[Len(origin)] = "cut"
    /\ Len(buf) = 1
    /\ buf[1] # <<>>
    /\ overflow >= 1

\* no physical line is longer than max_chars + overflow
ShortLines == \A k \in 1..Len(lines) : Len(lines[k]) <= max_chars + overflow

\* the first position from pos on that holds no whitespace
SkipSpace(t, pos) ==
    Least({q \in pos..Len(t) + 1 : q = Len(t) + 1 \/ ~IsSpace(t[q])})

\* t from pos on is the chunk texts k, k + 1, ... in order with nothing but
\* whitespace before, between and after them
RECURSIVE CoversFrom(_, _, _)
CoversFrom(t, pos, k) ==
    LET q == SkipSpace(t, pos)
    IN  IF k > Len(chunks) THEN q = Len(t) + 1
        ELSE LET c == chunks[k].text
             IN  /\ q + Len(c) - 1 <= Len(t)
                 /\ SubSeq(t, q, q + Len(c) - 1) = c
                 /\ CoversFrom(t, q + Len(c), k + 1)

\* C28: when no line is longer than max_chars + overflow the sentence
\* sub-split is never taken and the chunk texts in order are the source
\* text with only whitespace removed at the chunk boundaries.
C28_ShortLinesCoverage ==
    ShortLines
    => /\ \A k \in 1..Len(origin) : origin[k] # "sentence"
       /\ pc = "done" => CoversFrom(text, 1, 1)

\* a finished chunking of short lines that merged a line into an undersized
\* buffer
C28_Witness ==
    /\ pc = "done"
    /\ ShortLines
    /\ \E k \in 1..Len(origin) : origin[k] = "force"
    /\ NoSpace(text) # <<>>

\* t is a run of whole consecutive lines, trimmed
WholeLines(t) ==
    \E a \in 1..Len(lines) + 1 : \E b \in (a - 1)..Len(lines) :
        t = strip(join(SubSeq(lines, a, b)))

\* C29: every chunk produced outside the sentence sub-split is a trimmed
\* run of whole consecutive lines; the hard cut is reached only with a
\* buffer of exactly max_chars characters and removes the whole buffer.
C29_WholeLines ==
    /\ [](\A k \in 1..Len(chunks) :
             origin[k] # "sentence" => WholeLines(chunks[k].text))
    /\ [][(NoCut /\ Len(accumulated) >= max_chars) =>
             /\ Len(accumulated) = max_chars
             /\ join(buf') = <<>>
             /\ chunks'[Len(chunks')].text = strip(accumulated)
             /\ i' = i]_vars

\* a hard cut has just been made
C29_Witness ==
    /\ pc = "loop"
    /\ origin # <<>>
    /\ origin[Len(origin)] = "hardcut"
    /\ chunks[Len(chunks)].text # <<>>
    /\ buf = <<<<>>>>

\* C30: at the start of every iteration of the main loop buf_len is the
\* length of the joined buffer and at most max_chars.
C30_BufLen ==
    pc = "loop" => buf_len = Len(join(buf)) /\ buf_len <= max_chars

\* the buffer is full, a chunk was emitted before, a line is pending
C30_Witness ==
    /\ pc = "loop"
    /\ i < Len(lines)
    /\ chunks # <<>>
    /\ buf_len = max_chars
    /\ Len(buf) >= 2

\* the first 80 characters of t, all of t when it is shorter
First80(t) == [k \in 1..Min(80, Len(t)) |-> t[k]]

\* the log lines that announce a new summary
Summaries == SelectSeq(events, LAMBDA e : e.ev = "log" /\ e.what = "summary")

\* C23: under iterative_summary the summary and the context sent with chunk
\* 0 are empty, those sent with chunk i >= 1 are the first 80 characters of
\* the trimmed output of chunk i - 1, the summary never passes 80
\* characters, and it is renewed once per completed chunk.
C23_RunningSummary ==
    strategy = "iterative_summary"
    => /\ \A c \in 1..Len(calls) :
             LET want == IF calls[c].idx = 0 THEN <<>>
                         ELSE First80(strip(OkReply(calls[c].idx - 1).text))
             IN  /\ calls[c].prev_summary = want
                 /\ calls[c].prev_context = want
       /\ Len(prev_summary) <= 80
       /\ prev_summary = IF translated_parts = <<>> THEN <<>>
                         ELSE First80(translated_parts[Len(translated_parts)])
       /\ Len(Summaries) = Len(translated_parts)
       /\ \A k \in 1..Len(Summaries) : Summaries[k].arg = k

\* chunk 1 is requested with the 80-character summary of a longer output
C23_Witness ==
    /\ strategy = "iterative_summary"
    /\ rpc = "wait"
    /\ idx = 1
    /\ replies[Len(replies)].text = LongText
    /\ Len(calls[Len(calls)].prev_summary) = 80
    /\ Len(translated_parts[1]) > 80

\* C24: the retry state belongs to one call: the attempts of every chunk
\* count from 0 up to max_retries and its delays start again at
\* retry_backoff, whatever earlier chunks of the run used up.
C24_RetryScope ==
    /\ \A c \in 1..Len(calls) :
          /\ calls[c].attempt
               = Cardinality({d \in 1..(c - 1) : calls[d].idx = calls[c].idx})
          /\ calls[c].attempt <= max_retries
    /\ \A s \in 1..Len(sleeps) :
          sleeps[s].secs
            = retry_backoff
              * Pow2(Cardinality({d \in 1..(s - 1) : sleeps[d].idx = sleeps[s].idx}))
    /\ rpc = "raise" => Cardinality(CallsFor(idx)) = max_retries + 1

\* chunk 0 needed a retry, and chunk 1 still got all its attempts
C24_Witness ==
    /\ rpc = "raise"
    /\ idx = 1
    /\ max_retries >= 1
    /\ Cardinality(CallsFor(0)) >= 2
    /\ Cardinality(CallsFor(1)) = max_retries + 1
    /\ \E s \in SleepsFor(1) : sleeps[s].secs = retry_backoff

\* C25: a response without choices is a success: its serialization is
\* returned on that attempt, with no retry, no sleep and no error, and the
\* run goes on to the next chunk with that text as the translation.
C25_RawFallback ==
    \A m \in 1..Len(replies) :
        replies[m].kind = "raw"
        => LET j == calls[m].idx
           IN  /\ Len(translated_parts) >= j + 1
               /\ translated_parts[j + 1] = strip(replies[m].text)
               /\ replies[m].text = RawJson
               /\ \A c \in CallsFor(j) : c <= m
               /\ \A s \in SleepsFor(j) : sleeps[s].attempt < calls[m].attempt
               /\ idx > j
               /\ m < Len(calls) => calls[m + 1].idx = j + 1

\* a response without choices on a retry of chunk 0, chunk 1 requested
C25_Witness ==
    /\ Len(replies) >= 2
    /\ replies[2].kind = "raw"
    /\ calls[2].idx = 0
    /\ calls[2].attempt = 1
    /\ Len(calls) = 3
    /\ calls[3].idx = 1

\* C27: when attempt k is the first to succeed the call returns that
\* attempt's text after k + 1 remote calls and k sleeps, and nothing
\* follows: a success on the first attempt never sleeps.
C27_SuccessCost ==
    \A m \in 1..Len(replies) :
        replies[m].kind # "error"
        => LET j == calls[m].idx
               k == calls[m].attempt
               cs == CallsFor(j)
           IN  /\ Cardinality(cs) = k + 1
               /\ Cardinality(SleepsFor(j)) = k
               /\ \A c \in cs : c <= m /\ (c < m => replies[c].kind = "error")
               /\ translated_parts[j + 1] = strip(replies[m].text)

\* chunk 0 succeeded at once, chunk 1 on its last attempt
C27_Witness ==
    /\ rpc = "loop"
    /\ idx = 2
    /\ max_retries >= 1
    /\ SleepsFor(0) = {}
    /\ Cardinality(CallsFor(1)) = max_retries + 1
    /\ Cardinality(SleepsFor(1)) = max_retries

\* the threads that are executing run()
Active == {k \in 1..Len(threads) : isRunning(k)}

\* C26: at most one translation run is active at any time, so no two runs
\* translate and write the same derived output file at once.
C26_SingleRun ==
    app = "up"
    => /\ Cardinality(Active) <= 1
       /\ \A j, k \in Active :
             (threads[j].state = "writing" /\ threads[k].state = "writing"
              /\ threads[j].source_path = threads[k].source_path) => j = k
====
